---- MODULE Spec2Model ----
(***************************************************************************)
(* luna-webappmanager: WebApplication (src/src/webapplication.cpp).        *)
(*                                                                         *)
(* One WebApplication instance, the luna-service bus it registers its      *)
(* activity on, and the windows it creates.  Every method of the class is  *)
(* an operator from a state record to a state record, so that a handler    *)
(* that calls another method (the constructor calls createActivity, the    *)
(* destructor calls destroyActivity) is the composition of the operators.  *)
(* An action applies one handler to the current state.                     *)
(***************************************************************************)
EXTENDS Integers, Sequences, FiniteSets, TLC

VARIABLES
    mActivityManagerToken,  \* LSMessageToken of the "create" call, 0 = invalid
    mActivityId,            \* int, -1 until a reply assigns one
    mReady,                 \* bool
    mParameters,            \* launch parameters
    headless,               \* mDescription.headless()
    windows,                \* windows created by the instance, windows[1] = mMainWindow
    alive,                  \* FALSE once ~WebApplication has run
    callmap,                \* bus: tokens of calls the bus still routes to the callback
    nextToken,              \* bus: serial of the next token it hands out
    inflight,               \* bus: tokens with a reply queued for dispatch
    cancelRequested,        \* history: tokens LSCallCancel was called for
    createCalls,            \* history: LSCallFromApplication(".../create") invocations
    readyChangedCount,      \* history: readyChanged() emissions
    readyEdges,             \* history: mReady false -> true transitions
    derefDead,              \* history: the callback dereferenced a destroyed instance
    out,                    \* calls and signals issued by the last handler, in order
    op,                     \* the last handler that ran
    lastMsg                 \* the message the callback was last dispatched with

vars == <<mActivityManagerToken, mActivityId, mReady, mParameters, headless, windows,
          alive, callmap, nextToken, inflight, cancelRequested, createCalls,
          readyChangedCount, readyEdges, derefDead, out, op, lastMsg>>

----------------------------------------------------------------------------
(* Bounds of the model *)

\* secondary windows a run creates
MaxWindows == 2
\* registration requests a run attempts
MaxCreateCalls == 2
\* readyChanged emissions a run counts
MaxReadySignals == 3

\* launch parameter strings
Parameters == {"p1", "p2"}
\* activity ids the activity manager hands out in replies
ActivityIds == {0, 42}

----------------------------------------------------------------------------
(* Program constants *)

LSMESSAGE_TOKEN_INVALID == 0

----------------------------------------------------------------------------
(* QJsonValue, as far as the reply handler uses it *)

Undefined == [type |-> "Undefined", b |-> FALSE, d |-> 0]
JBool(x) == [type |-> "Bool", b |-> x, d |-> 0]
JDouble(n) == [type |-> "Double", b |-> FALSE, d |-> n]
JString == [type |-> "String", b |-> FALSE, d |-> 0]

\* QJsonObject::contains(key): value(key) of an absent key is Undefined
contains(v) == v.type # "Undefined"
\* QJsonValue::isBool
isBool(v) == v.type = "Bool"
\* QJsonValue::toBool(): the value of a Bool, false for every other type
toBool(v) == IF v.type = "Bool" THEN v.b ELSE FALSE
\* (int) QJsonValue::toDouble(): the value of a Double, 0 for every other type
toDouble(v) == IF v.type = "Double" THEN v.d ELSE 0

ReturnValues == {Undefined, JBool(TRUE), JBool(FALSE), JDouble(1), JString}
ActivityIdValues == {Undefined, JString} \cup {JDouble(n) : n \in ActivityIds}

\* payloads the bus can deliver: one that is no JSON object, and the objects
NotAnObject == [isObject |-> FALSE, returnValue |-> Undefined, activityId |-> Undefined]
Payloads == {NotAnObject} \cup
            [isObject : {TRUE}, returnValue : ReturnValues, activityId : ActivityIdValues]

NoMsg == [token |-> LSMESSAGE_TOKEN_INVALID, payload |-> NotAnObject]

----------------------------------------------------------------------------
(* State records *)

Ev(e, n, s) == [ev |-> e, n |-> n, s |-> s]

Cur == [mActivityManagerToken |-> mActivityManagerToken,
        mActivityId |-> mActivityId,
        mReady |-> mReady,
        mParameters |-> mParameters,
        headless |-> headless,
        windows |-> windows,
        alive |-> alive,
        callmap |-> callmap,
        nextToken |-> nextToken,
        inflight |-> inflight,
        cancelRequested |-> cancelRequested,
        createCalls |-> createCalls,
        readyChangedCount |-> readyChangedCount,
        readyEdges |-> readyEdges,
        derefDead |-> derefDead,
        out |-> out,
        op |-> op,
        lastMsg |-> lastMsg]

Holds(s) ==
    /\ mActivityManagerToken = s.mActivityManagerToken
    /\ mActivityId = s.mActivityId
    /\ mReady = s.mReady
    /\ mParameters = s.mParameters
    /\ headless = s.headless
    /\ windows = s.windows
    /\ alive = s.alive
    /\ callmap = s.callmap
    /\ nextToken = s.nextToken
    /\ inflight = s.inflight
    /\ cancelRequested = s.cancelRequested
    /\ createCalls = s.createCalls
    /\ readyChangedCount = s.readyChangedCount
    /\ readyEdges = s.readyEdges
    /\ derefDead = s.derefDead
    /\ out = s.out
    /\ op = s.op
    /\ lastMsg = s.lastMsg

Becomes(s) ==
    /\ mActivityManagerToken' = s.mActivityManagerToken
    /\ mActivityId' = s.mActivityId
    /\ mReady' = s.mReady
    /\ mParameters' = s.mParameters
    /\ headless' = s.headless
    /\ windows' = s.windows
    /\ alive' = s.alive
    /\ callmap' = s.callmap
    /\ nextToken' = s.nextToken
    /\ inflight' = s.inflight
    /\ cancelRequested' = s.cancelRequested
    /\ createCalls' = s.createCalls
    /\ readyChangedCount' = s.readyChangedCount
    /\ readyEdges' = s.readyEdges
    /\ derefDead' = s.derefDead
    /\ out' = s.out
    /\ op' = s.op
    /\ lastMsg' = s.lastMsg

\* a handler starts: nothing issued yet, no message at hand
Enter(name) == [Cur EXCEPT !.out = <<>>, !.op = name, !.lastMsg = NoMsg]

----------------------------------------------------------------------------
(* Windows (WebApplicationWindow, the window layer) *)

\* new WebApplicationWindow(application, url, windowType, headless)
NewWindow(h) == [headless |-> h, visible |-> FALSE, closed |-> FALSE]

\* WebApplicationWindow::show(): a window that is already visible stays as it
\* is, and so does the primary window of a headless instance
show(w, primary, instHeadless) ==
    IF w.visible \/ (instHeadless /\ primary) THEN w ELSE [w EXCEPT !.visible = TRUE]

\* the window layer closes window i
closeWindow(s, i) ==
    [s EXCEPT !.windows[i] = [@ EXCEPT !.closed = TRUE, !.visible = FALSE]]

\* the order windows are released in: the secondary ones, then the primary
CloseOrder(n) == [k \in 1..n |-> IF k < n THEN k + 1 ELSE 1]

\* WindowOwner closeAll: every window still open is closed, in CloseOrder
closeAll(s) ==
    LET n == Len(s.windows)
        open == SelectSeq(CloseOrder(n), LAMBDA i : ~s.windows[i].closed)
        evs == [k \in 1..Len(open) |-> Ev("closeWindow", open[k], "")]
    IN  [s EXCEPT !.windows = [i \in 1..n |->
                                  [s.windows[i] EXCEPT !.closed = TRUE, !.visible = FALSE]],
                  !.out = @ \o evs]

----------------------------------------------------------------------------
(* WebApplication *)

\* WebApplication::setActivityId
setActivityId(s, activityId) == [s EXCEPT !.mActivityId = activityId]

\* the callback dereferences its user_data, the instance that registered it
Deref(s) == [s EXCEPT !.derefDead = @ \/ ~s.alive]

\* the callback with the validity test the other way round: a returnValue
\* that is no boolean is the malformed one
activityManagerCallback_boolAccepted(s, payload) ==
    IF ~payload.isObject
    THEN [s EXCEPT !.out = Append(@, Ev("qWarning", 0, "malformed"))]
    ELSE IF ~contains(payload.returnValue) \/ ~isBool(payload.returnValue)
    THEN [s EXCEPT !.out = Append(@, Ev("qWarning", 0, "malformed"))]
    ELSE IF ~toBool(payload.returnValue)
    THEN [Deref(s) EXCEPT !.out = Append(@, Ev("qWarning", 0, "failed"))]
    ELSE IF ~contains(payload.activityId)
    THEN [s EXCEPT !.out = Append(@, Ev("qWarning", 0, "malformed"))]
    ELSE setActivityId(Deref(s), toDouble(payload.activityId))

\* the callback giving the token up whenever it rejects a reply
activityManagerCallback_resetsToken(s, payload) ==
    IF ~payload.isObject
    THEN [s EXCEPT !.out = Append(@, Ev("qWarning", 0, "malformed")),
                   !.mActivityManagerToken = LSMESSAGE_TOKEN_INVALID]
    ELSE IF ~contains(payload.returnValue) \/ isBool(payload.returnValue)
    THEN [s EXCEPT !.out = Append(@, Ev("qWarning", 0, "malformed")),
                   !.mActivityManagerToken = LSMESSAGE_TOKEN_INVALID]
    ELSE IF ~toBool(payload.returnValue)
    THEN [Deref(s) EXCEPT !.out = Append(@, Ev("qWarning", 0, "failed")),
                          !.mActivityManagerToken = LSMESSAGE_TOKEN_INVALID]
    ELSE IF ~contains(payload.activityId)
    THEN [s EXCEPT !.out = Append(@, Ev("qWarning", 0, "malformed")),
                   !.mActivityManagerToken = LSMESSAGE_TOKEN_INVALID]
    ELSE setActivityId(Deref(s), toDouble(payload.activityId))

\* WebApplication::activityManagerCallback(handle, message, user_data)
activityManagerCallback(s, payload) ==
    IF ~payload.isObject
    THEN [s EXCEPT !.out = Append(@, Ev("qWarning", 0, "malformed"))]
    ELSE IF ~contains(payload.returnValue) \/ isBool(payload.returnValue)
    THEN [s EXCEPT !.out = Append(@, Ev("qWarning", 0, "malformed"))]
    ELSE IF ~toBool(payload.returnValue)
    THEN [Deref(s) EXCEPT !.out = Append(@, Ev("qWarning", 0, "failed"))]
    ELSE IF ~contains(payload.activityId)
    THEN [s EXCEPT !.out = Append(@, Ev("qWarning", 0, "malformed"))]
    ELSE setActivityId(Deref(s), toDouble(payload.activityId))

\* createActivity without the test of the token it already holds
createActivity_noGuard(s, lsOk) ==
    IF lsOk
    THEN [s EXCEPT !.mActivityManagerToken = s.nextToken,
                   !.callmap = @ \cup {s.nextToken},
                   !.nextToken = @ + 1,
                   !.createCalls = @ + 1,
                   !.out = Append(@, Ev("LSCall create", s.nextToken, ""))]
    ELSE [s EXCEPT !.createCalls = @ + 1,
                   !.out = Append(Append(@, Ev("LSCall create", LSMESSAGE_TOKEN_INVALID, "")),
                                  Ev("qWarning", 0, "register failed"))]

\* createActivity keeping a token of a call that failed to dispatch
createActivity_recordsOnFailure(s, lsOk) ==
    IF s.mActivityManagerToken # LSMESSAGE_TOKEN_INVALID
    THEN [s EXCEPT !.out = Append(@, Ev("qWarning", 0, "already registered"))]
    ELSE IF lsOk
    THEN [s EXCEPT !.mActivityManagerToken = s.nextToken,
                   !.callmap = @ \cup {s.nextToken},
                   !.nextToken = @ + 1,
                   !.createCalls = @ + 1,
                   !.out = Append(@, Ev("LSCall create", s.nextToken, ""))]
    ELSE [s EXCEPT !.mActivityManagerToken = s.nextToken,
                   !.createCalls = @ + 1,
                   !.out = Append(Append(@, Ev("LSCall create", LSMESSAGE_TOKEN_INVALID, "")),
                                  Ev("qWarning", 0, "register failed"))]

\* WebApplication::createActivity; lsOk: LSCallFromApplication returned true.
\* A call that succeeds stores the token the bus assigned to it and enters the
\* bus's call map; a call that fails stores nothing.
createActivity(s, lsOk) ==
    IF s.mActivityManagerToken # LSMESSAGE_TOKEN_INVALID
    THEN [s EXCEPT !.out = Append(@, Ev("qWarning", 0, "already registered"))]
    ELSE IF lsOk
    THEN [s EXCEPT !.mActivityManagerToken = s.nextToken,
                   !.callmap = @ \cup {s.nextToken},
                   !.nextToken = @ + 1,
                   !.createCalls = @ + 1,
                   !.out = Append(@, Ev("LSCall create", s.nextToken, ""))]
    ELSE [s EXCEPT !.createCalls = @ + 1,
                   !.out = Append(Append(@, Ev("LSCall create", LSMESSAGE_TOKEN_INVALID, "")),
                                  Ev("qWarning", 0, "register failed"))]

\* destroyActivity that forgets to reset the token after a cancel that succeeded
destroyActivity_keepsToken(s, lsOk) ==
    IF s.mActivityManagerToken = LSMESSAGE_TOKEN_INVALID
    THEN s
    ELSE IF ~lsOk
    THEN [s EXCEPT !.cancelRequested = @ \cup {s.mActivityManagerToken},
                   !.out = Append(Append(@, Ev("LSCallCancel", s.mActivityManagerToken, "")),
                                  Ev("qWarning", 0, "cancel failed"))]
    ELSE [s EXCEPT !.cancelRequested = @ \cup {s.mActivityManagerToken},
                   !.callmap = @ \ {s.mActivityManagerToken},
                   !.out = Append(@, Ev("LSCallCancel", s.mActivityManagerToken, ""))]

\* destroyActivity that resets the token without the early return of a cancel
\* that failed
destroyActivity_resetsOnFailure(s, lsOk) ==
    IF s.mActivityManagerToken = LSMESSAGE_TOKEN_INVALID
    THEN s
    ELSE IF ~lsOk
    THEN [s EXCEPT !.cancelRequested = @ \cup {s.mActivityManagerToken},
                   !.out = Append(Append(@, Ev("LSCallCancel", s.mActivityManagerToken, "")),
                                  Ev("qWarning", 0, "cancel failed")),
                   !.mActivityManagerToken = LSMESSAGE_TOKEN_INVALID]
    ELSE [s EXCEPT !.cancelRequested = @ \cup {s.mActivityManagerToken},
                   !.callmap = @ \ {s.mActivityManagerToken},
                   !.out = Append(@, Ev("LSCallCancel", s.mActivityManagerToken, "")),
                   !.mActivityManagerToken = LSMESSAGE_TOKEN_INVALID]

\* destroyActivity that takes "no activity id yet" for "nothing to cancel",
\* the test changeActivityFocus makes
destroyActivity_needsActivityId(s, lsOk) ==
    IF s.mActivityId < 0
    THEN s
    ELSE IF ~lsOk
    THEN [s EXCEPT !.cancelRequested = @ \cup {s.mActivityManagerToken},
                   !.out = Append(Append(@, Ev("LSCallCancel", s.mActivityManagerToken, "")),
                                  Ev("qWarning", 0, "cancel failed"))]
    ELSE [s EXCEPT !.cancelRequested = @ \cup {s.mActivityManagerToken},
                   !.callmap = @ \ {s.mActivityManagerToken},
                   !.out = Append(@, Ev("LSCallCancel", s.mActivityManagerToken, "")),
                   !.mActivityManagerToken = LSMESSAGE_TOKEN_INVALID]

\* WebApplication::destroyActivity; lsOk: LSCallCancel returned true.
\* A cancel that succeeds takes the token out of the bus's call map; a cancel
\* that fails leaves the bus as it was.
destroyActivity(s, lsOk) ==
    IF s.mActivityManagerToken = LSMESSAGE_TOKEN_INVALID
    THEN s
    ELSE IF ~lsOk
    THEN [s EXCEPT !.cancelRequested = @ \cup {s.mActivityManagerToken},
                   !.out = Append(Append(@, Ev("LSCallCancel", s.mActivityManagerToken, "")),
                                  Ev("qWarning", 0, "cancel failed"))]
    ELSE [s EXCEPT !.cancelRequested = @ \cup {s.mActivityManagerToken},
                   !.callmap = @ \ {s.mActivityManagerToken},
                   !.out = Append(@, Ev("LSCallCancel", s.mActivityManagerToken, "")),
                   !.mActivityManagerToken = LSMESSAGE_TOKEN_INVALID]

\* changeActivityFocus taking the activity id 0 for "none assigned"
changeActivityFocus_zeroUnset(s, focus) ==
    IF s.mActivityId <= 0
    THEN s
    ELSE [s EXCEPT !.out = Append(@, Ev(IF focus THEN "LSCall focus" ELSE "LSCall unfocus",
                                        s.mActivityId, ""))]

\* WebApplication::changeActivityFocus; a failed call is logged only
changeActivityFocus(s, focus) ==
    IF s.mActivityId < 0
    THEN s
    ELSE [s EXCEPT !.out = Append(@, Ev(IF focus THEN "LSCall focus" ELSE "LSCall unfocus",
                                        s.mActivityId, ""))]

\* run with the headless test the wrong way round
run_showsHeadless(s) ==
    IF s.headless
    THEN [s EXCEPT !.windows[1] = show(@, TRUE, s.headless)]
    ELSE s

\* WebApplication::run
run(s) ==
    IF ~s.headless
    THEN [s EXCEPT !.windows[1] = show(@, TRUE, s.headless)]
    ELSE s

\* relaunch that registers the activity again
relaunch_registersAgain(s, parameters) ==
    createActivity([s EXCEPT !.mParameters = parameters,
                             !.out = Append(@, Ev("executeScript", 1, parameters))],
                   TRUE)

\* relaunch that runs the script but does not store the new parameters
relaunch_keepsParameters(s, parameters) ==
    [s EXCEPT !.out = Append(@, Ev("executeScript", 1, parameters))]

\* WebApplication::relaunch
relaunch(s, parameters) ==
    [s EXCEPT !.mParameters = parameters,
              !.out = Append(@, Ev("executeScript", 1, parameters))]

\* createWindow handing the instance's headless flag on to the child window
createWindow_inheritsHeadless(s) ==
    [s EXCEPT !.windows = Append(@, show(NewWindow(s.headless), FALSE, s.headless))]

\* WebApplication::createWindow
createWindow(s) ==
    [s EXCEPT !.windows = Append(@, show(NewWindow(FALSE), FALSE, s.headless))]

\* WebApplication::stagePreparing
stagePreparing(s) == [s EXCEPT !.mReady = FALSE]

\* stageReady that sets the flag without the notification
stageReady_silent(s) ==
    [s EXCEPT !.mReady = TRUE,
              !.readyEdges = IF s.mReady THEN @ ELSE @ + 1]

\* WebApplication::stageReady
stageReady(s) ==
    [s EXCEPT !.mReady = TRUE,
              !.readyEdges = IF s.mReady THEN @ ELSE @ + 1,
              !.readyChangedCount = @ + 1,
              !.out = Append(@, Ev("readyChanged", 0, ""))]

\* the closed signal of the primary window connected twice
mainWindowClosed_twice(s) ==
    [s EXCEPT !.out = Append(Append(@, Ev("closed", 0, "")), Ev("closed", 0, ""))]

\* the lambda connected to mMainWindow's closed signal
mainWindowClosed(s) == [s EXCEPT !.out = Append(@, Ev("closed", 0, ""))]

\* WebApplication::WebApplication
WebApplication(descHeadless, parameters, lsOk) ==
    createActivity(
        [mActivityManagerToken |-> LSMESSAGE_TOKEN_INVALID,
         mActivityId |-> -1,
         mReady |-> FALSE,
         mParameters |-> parameters,
         headless |-> descHeadless,
         windows |-> <<NewWindow(descHeadless)>>,
         alive |-> TRUE,
         callmap |-> {},
         nextToken |-> 1,
         inflight |-> {},
         cancelRequested |-> {},
         createCalls |-> 0,
         readyChangedCount |-> 0,
         readyEdges |-> 0,
         derefDead |-> FALSE,
         out |-> <<>>,
         op |-> "WebApplication",
         lastMsg |-> NoMsg],
        lsOk)

\* WebApplication::~WebApplication
Destructor(s, lsOk) == [destroyActivity(s, lsOk) EXCEPT !.alive = FALSE]

\* destroy(): the destructor, then the windows are released
destroy(s, lsOk) == closeAll(Destructor(s, lsOk))

----------------------------------------------------------------------------
(* Actions *)

Init == \E h \in BOOLEAN, p \in Parameters, lsOk \in BOOLEAN :
            Holds(WebApplication(h, p, lsOk))

Run == alive /\ Becomes(run(Enter("run")))

Relaunch == alive /\ \E p \in Parameters : Becomes(relaunch(Enter("relaunch"), p))

CreateWindow ==
    /\ alive
    /\ Len(windows) < 1 + MaxWindows
    /\ Becomes(createWindow(Enter("createWindow")))

StagePreparing == alive /\ Becomes(stagePreparing(Enter("stagePreparing")))

StageReady ==
    /\ alive
    /\ readyChangedCount < MaxReadySignals
    /\ Becomes(stageReady(Enter("stageReady")))

ChangeActivityFocus ==
    alive /\ \E f \in BOOLEAN : Becomes(changeActivityFocus(Enter("changeActivityFocus"), f))

\* the window layer closes the primary window, whose closed signal runs the lambda
MainWindowClosed ==
    /\ alive
    /\ ~windows[1].closed
    /\ Becomes(mainWindowClosed(closeWindow(Enter("mainWindowClosed"), 1)))

\* the window layer closes a secondary window
SecondaryWindowClosed ==
    /\ alive
    /\ \E i \in 2..Len(windows) :
          /\ ~windows[i].closed
          /\ Becomes(closeWindow(Enter("secondaryWindowClosed"), i))

Destroy == alive /\ \E lsOk \in BOOLEAN : Becomes(destroy(Enter("destroy"), lsOk))

\* the activity manager answers a call the bus still routes (subscribe: true,
\* so any number of times); the reply is queued for dispatch
ServiceReply ==
    \E t \in callmap \ inflight :
        Becomes([Enter("serviceReply") EXCEPT !.inflight = @ \cup {t}])

\* the bus's main loop dispatches a queued reply to the callback registered
\* with the call; the callback never looks at the token of the message.  A
\* reply queued before its call was cancelled is either still dispatched
\* (here) or discarded (DropReply): the source does not decide which.
Dispatch ==
    \E t \in inflight, p \in Payloads :
        Becomes(activityManagerCallback(
                    [Enter("activityManagerCallback") EXCEPT
                        !.inflight = @ \ {t},
                        !.lastMsg = [token |-> t, payload |-> p]],
                    p))

\* the bus discards a queued reply
DropReply ==
    \E t \in inflight :
        Becomes([Enter("dropReply") EXCEPT !.inflight = @ \ {t}])

\* createActivity called on a live instance
CreateActivity ==
    /\ alive
    /\ mActivityManagerToken # LSMESSAGE_TOKEN_INVALID \/ createCalls < MaxCreateCalls
    /\ \E lsOk \in BOOLEAN : Becomes(createActivity(Enter("createActivity"), lsOk))

\* destroyActivity called on a live instance
DestroyActivity ==
    alive /\ \E lsOk \in BOOLEAN : Becomes(destroyActivity(Enter("destroyActivity"), lsOk))

\* the instance as the class drives it: createActivity from the constructor
\* and destroyActivity from the destructor only
Next ==
    \/ Run
    \/ Relaunch
    \/ CreateWindow
    \/ StagePreparing
    \/ StageReady
    \/ ChangeActivityFocus
    \/ MainWindowClosed
    \/ SecondaryWindowClosed
    \/ Destroy
    \/ ServiceReply
    \/ Dispatch
    \/ DropReply

Spec == Init /\ [][Next]_vars

\* the registrar driven directly: register and cancel at any time on a live
\* instance, the bus, and the destruction of the instance
NextAPI ==
    \/ CreateActivity
    \/ DestroyActivity
    \/ ChangeActivityFocus
    \/ ServiceReply
    \/ Dispatch
    \/ DropReply
    \/ Destroy

SpecAPI == Init /\ [][NextAPI]_vars

\* setActivityId called on a live instance
SetActivityId ==
    /\ alive
    /\ \E n \in ActivityIds \cup {-1} : Becomes(setActivityId(Enter("setActivityId"), n))

\* the focus requests of an instance whose activity id is set directly, as a
\* successful registration is meant to set it
NextFocus ==
    \/ SetActivityId
    \/ ChangeActivityFocus
    \/ ServiceReply
    \/ Dispatch
    \/ DropReply
    \/ Destroy

SpecFocus == Init /\ [][NextFocus]_vars

----------------------------------------------------------------------------
(* Vocabulary of the claims *)

\* the registrar's states, read off the instance's fields
Idle == mActivityManagerToken = LSMESSAGE_TOKEN_INVALID /\ mActivityId = -1
Registering == mActivityManagerToken # LSMESSAGE_TOKEN_INVALID /\ mActivityId = -1

\* {returnValue: true, activityId: n}
WellFormedSuccess(p) ==
    p.isObject /\ p.returnValue = JBool(TRUE) /\ p.activityId.type = "Double"

\* not an object, returnValue absent, or activityId absent on success
Malformed(p) ==
    \/ ~p.isObject
    \/ p.returnValue = Undefined
    \/ p.returnValue = JBool(TRUE) /\ p.activityId = Undefined

\* returnValue false
ReportsFailure(p) == p.isObject /\ p.returnValue = JBool(FALSE)

Issued(o, e) == SelectSeq(o, LAMBDA x : x.ev = e)
CancelFailed(o) == \E i \in 1..Len(o) : o[i] = Ev("qWarning", 0, "cancel failed")

----------------------------------------------------------------------------
(* Claims *)

\* C1: the bus routes at most one registration call of the instance, the one
\* whose token the instance holds; and a createActivity call made while the
\* token is not the invalid sentinel sends no request and leaves the token
\* (and the bus's call map) unchanged.
C1_AtMostOneToken ==
    /\ [](Cardinality(callmap) <= 1 /\ callmap \subseteq {mActivityManagerToken})
    /\ [][(op' = "createActivity" /\ mActivityManagerToken # LSMESSAGE_TOKEN_INVALID)
            => /\ mActivityManagerToken' = mActivityManagerToken
               /\ createCalls' = createCalls
               /\ callmap' = callmap
               /\ Issued(out', "LSCall create") = <<>>]_vars

\* C1 witness: createActivity has run on an instance that held a token
C1_Witness ==
    /\ alive
    /\ op = "createActivity"
    /\ out = <<Ev("qWarning", 0, "already registered")>>
    /\ mActivityManagerToken # LSMESSAGE_TOKEN_INVALID
    /\ callmap = {mActivityManagerToken}

\* C2: a reply dispatched to the callback whose token is not the token the
\* instance holds changes neither activityId nor the token nor the bus's
\* call map, whatever its payload.
C2_StaleReplyChangesNothing ==
    [][(op' = "activityManagerCallback" /\ lastMsg'.token # mActivityManagerToken)
         => /\ mActivityId' = mActivityId
            /\ mActivityManagerToken' = mActivityManagerToken
            /\ callmap' = callmap]_vars

\* C2 witness: a well-formed successful reply for a cancelled token has been
\* dispatched while the instance holds the token of a newer registration
C2_Witness ==
    /\ alive
    /\ op = "activityManagerCallback"
    /\ mActivityManagerToken # LSMESSAGE_TOKEN_INVALID
    /\ lastMsg.token # mActivityManagerToken
    /\ WellFormedSuccess(lastMsg.payload)

C4_Original ==
    (/\ alive
     /\ op = "activityManagerCallback"
     /\ mActivityManagerToken # LSMESSAGE_TOKEN_INVALID
     /\ lastMsg.token = mActivityManagerToken
     /\ WellFormedSuccess(lastMsg.payload))
    => mActivityId = lastMsg.payload.activityId.d

C6_Original == readyChangedCount = readyEdges

\* C7: destroying a Registering instance issues exactly one LSCallCancel, for
\* the token the instance holds, before anything else; the windows are closed
\* after it, the primary window last.
C7_CancelBeforeWindows ==
    [][(op' = "destroy" /\ Registering)
         => /\ Len(out') >= 1
            /\ out'[1] = Ev("LSCallCancel", mActivityManagerToken, "")
            /\ Len(Issued(out', "LSCallCancel")) = 1
            /\ LET closes == Issued(out', "closeWindow")
               IN  \A i \in 1..Len(closes) : (closes[i].n = 1) => (i = Len(closes))]_vars

\* C7 witness: a Registering instance with a secondary window has been
\* destroyed while no reply was queued: the cancel, then two windows closed
C7_Witness ==
    /\ op = "destroy"
    /\ ~alive
    /\ inflight = {}
    /\ Len(out) >= 3
    /\ out[1].ev = "LSCallCancel"
    /\ out[1].n \in cancelRequested
    /\ Len(Issued(out, "closeWindow")) >= 2

C9_Original == ~alive => (callmap = {} /\ ~derefDead)

\* C10: every secondary window is non-headless, and visible as long as it is
\* open, whatever the instance's headless flag.
C10_SecondaryNeverHeadless ==
    \A i \in 2..Len(windows) :
        /\ ~windows[i].headless
        /\ windows[i].visible \/ windows[i].closed

\* C10 witness: a headless instance has just created a secondary window
C10_Witness ==
    /\ headless
    /\ windows[1].headless
    /\ op = "createWindow"
    /\ Len(windows) >= 2
    /\ windows[Len(windows)].visible
    /\ ~windows[Len(windows)].headless


\* C11: relaunch(p) stores p as the parameters and issues exactly one
\* executeScript call on the primary window, carrying p; readyState, the
\* windows, the token, the activity id and the bus are left as they were.
C11_RelaunchFrame ==
    [][(op' = "relaunch")
         => /\ Len(out') = 1
            /\ out'[1] = Ev("executeScript", 1, mParameters')
            /\ mReady' = mReady
            /\ windows' = windows
            /\ mActivityManagerToken' = mActivityManagerToken
            /\ mActivityId' = mActivityId
            /\ callmap' = callmap
            /\ readyChangedCount' = readyChangedCount]_vars

\* C11 witness: relaunch has run on a Ready instance with a secondary window
\* and a registration outstanding
C11_Witness ==
    /\ alive
    /\ op = "relaunch"
    /\ out = <<Ev("executeScript", 1, "p2")>>
    /\ mParameters = "p2"
    /\ mReady
    /\ Len(windows) >= 2
    /\ mActivityManagerToken # LSMESSAGE_TOKEN_INVALID


\* C12: when the registration call of the constructor failed to dispatch (the
\* bus handed out no token), the instance is constructed with its primary
\* window, holds no token and no activity id, and no LSCallCancel is ever
\* issued, not by its destruction either.
C12_FailedRegistration ==
    (nextToken = 1)
    => /\ createCalls = 1
       /\ Len(windows) >= 1
       /\ (op = "WebApplication") => (alive /\ ~windows[1].closed)
       /\ mActivityManagerToken = LSMESSAGE_TOKEN_INVALID
       /\ mActivityId = -1
       /\ callmap = {}
       /\ cancelRequested = {}
       /\ Issued(out, "LSCallCancel") = <<>>

\* C12 witness: an instance whose registration call failed has been destroyed
C12_Witness ==
    /\ nextToken = 1
    /\ createCalls = 1
    /\ ~alive
    /\ op = "destroy"
    /\ out = <<Ev("closeWindow", 1, "")>>


\* C13: changeActivityFocus issues no bus call while the activity id is
\* negative; with an activity id assigned it issues exactly one focus or
\* unfocus call carrying that id; it changes no member of the instance and
\* nothing on the bus in either case.
C13_FocusRequests ==
    [][(op' = "changeActivityFocus")
         => /\ IF mActivityId < 0
               THEN out' = <<>>
               ELSE \/ out' = <<Ev("LSCall focus", mActivityId, "")>>
                    \/ out' = <<Ev("LSCall unfocus", mActivityId, "")>>
            /\ mActivityId' = mActivityId
            /\ mActivityManagerToken' = mActivityManagerToken
            /\ mReady' = mReady
            /\ mParameters' = mParameters
            /\ windows' = windows
            /\ callmap' = callmap
            /\ inflight' = inflight]_vars

\* C13 witness: an unfocus request has been sent for the assigned activity id 0
C13_Witness ==
    /\ alive
    /\ op = "changeActivityFocus"
    /\ mActivityId = 0
    /\ out = <<Ev("LSCall unfocus", 0, "")>>


C15_Original ==
    /\ ~mReady
    /\ [][/\ mReady => mReady'
          /\ (~mReady /\ mReady')
               => Issued(out', "readyChanged") = <<Ev("readyChanged", 0, "")>>]_vars

\* C15 amended: readyState starts Preparing; only stageReady takes it to
\* Ready and only stagePreparing takes it back to Preparing; every step into
\* Ready emits exactly one readyChanged.
C15_ReadyTransitions ==
    /\ ~mReady
    /\ [][/\ (mReady /\ ~mReady') => op' = "stagePreparing"
          /\ (~mReady /\ mReady')
               => /\ op' = "stageReady"
                  /\ Issued(out', "readyChanged") = <<Ev("readyChanged", 0, "")>>
                  /\ readyChangedCount' = readyChangedCount + 1]_vars

\* C15 witness: an instance that was Ready is Preparing again after
\* stagePreparing
C15_Witness ==
    /\ alive
    /\ op = "stagePreparing"
    /\ ~mReady
    /\ readyEdges >= 1
    /\ readyChangedCount >= 1


\* C16: every reply that is an object with a boolean returnValue, true or
\* false, is logged as malformed and leaves the activity id as it was.
C16_BooleanRejected ==
    [][(/\ op' = "activityManagerCallback"
        /\ lastMsg'.payload.isObject
        /\ lastMsg'.payload.returnValue \in {JBool(TRUE), JBool(FALSE)})
         => /\ out' = <<Ev("qWarning", 0, "malformed")>>
            /\ mActivityId' = mActivityId
            /\ derefDead' = derefDead]_vars

\* C16 witness: {returnValue: true, activityId: 42} for the token the
\* instance holds has been rejected as malformed
C16_Witness ==
    /\ alive
    /\ op = "activityManagerCallback"
    /\ lastMsg.token = mActivityManagerToken
    /\ lastMsg.payload.isObject
    /\ lastMsg.payload.returnValue = JBool(TRUE)
    /\ lastMsg.payload.activityId = JDouble(42)
    /\ out = <<Ev("qWarning", 0, "malformed")>>
    /\ mActivityId = -1

\* C17: the activity id is -1 in every reachable state, and no handler
\* issues a focus or unfocus call.
C17_ActivityIdNeverSet ==
    /\ mActivityId = -1
    /\ Issued(out, "LSCall focus") = <<>>
    /\ Issued(out, "LSCall unfocus") = <<>>

\* C17 witness: a reply whose returnValue is the number 1 (with an activityId)
\* took the failure branch
C17_Witness ==
    /\ alive
    /\ op = "activityManagerCallback"
    /\ lastMsg.token = mActivityManagerToken
    /\ lastMsg.payload.returnValue = JDouble(1)
    /\ lastMsg.payload.activityId = JDouble(42)
    /\ out = <<Ev("qWarning", 0, "failed")>>
    /\ mActivityId = -1

\* C18: dispatching a reply never changes the token; a valid token becomes
\* the invalid sentinel only in a destroyActivity whose LSCallCancel
\* succeeded; a destroyActivity whose LSCallCancel failed leaves the token.
C18_TokenFrame ==
    [][/\ (op' = "activityManagerCallback")
            => mActivityManagerToken' = mActivityManagerToken
       /\ (/\ mActivityManagerToken # LSMESSAGE_TOKEN_INVALID
           /\ mActivityManagerToken' = LSMESSAGE_TOKEN_INVALID)
            => /\ op' \in {"destroyActivity", "destroy"}
               /\ Len(Issued(out', "LSCallCancel")) = 1
               /\ ~CancelFailed(out')
       /\ (op' \in {"destroyActivity", "destroy"} /\ CancelFailed(out'))
            => mActivityManagerToken' = mActivityManagerToken]_vars

\* C18 witness: a reply that reports failure has been dispatched for the
\* token the instance holds, and the token is still held and routed
C18_Witness ==
    /\ alive
    /\ op = "activityManagerCallback"
    /\ lastMsg.payload.isObject
    /\ lastMsg.payload.returnValue = JBool(FALSE)
    /\ mActivityManagerToken # LSMESSAGE_TOKEN_INVALID
    /\ lastMsg.token = mActivityManagerToken
    /\ mActivityManagerToken \in callmap
    /\ cancelRequested = {}


\* C19: exactly one registration request is attempted in the lifetime of an
\* instance, by its constructor: no later handler issues a create call, and
\* the bus hands out at most one token.
C19_RegistersOnce ==
    /\ createCalls = 1
    /\ nextToken <= 2
    /\ (op # "WebApplication") => Issued(out, "LSCall create") = <<>>

\* C19 witness: an instance whose registration failed at construction has
\* been relaunched, and no further registration was attempted
C19_Witness ==
    /\ alive
    /\ op = "relaunch"
    /\ nextToken = 1
    /\ mActivityManagerToken = LSMESSAGE_TOKEN_INVALID
    /\ createCalls = 1
    /\ mReady

\* C20: the closed signal is emitted by the handler of the primary window's
\* closed event only, once per event; creating or closing a secondary window
\* emits nothing and changes no member of the instance (the token, the
\* activity id, the ready flag, the parameters, the primary window).
C20_ClosedSignal ==
    [][/\ (Issued(out', "closed") # <<>>) => op' = "mainWindowClosed"
       /\ (op' = "mainWindowClosed") => out' = <<Ev("closed", 0, "")>>
       /\ (op' \in {"createWindow", "secondaryWindowClosed"})
            => /\ out' = <<>>
               /\ mActivityManagerToken' = mActivityManagerToken
               /\ mActivityId' = mActivityId
               /\ mReady' = mReady
               /\ mParameters' = mParameters
               /\ windows'[1] = windows[1]]_vars

\* C20 witness: a secondary window has been closed while the primary window
\* is open, and nothing was emitted
C20_Witness ==
    /\ alive
    /\ op = "secondaryWindowClosed"
    /\ out = <<>>
    /\ ~windows[1].closed
    /\ \E i \in 2..Len(windows) : windows[i].closed

====
